---- MODULE Spec2Model ----
(***************************************************************************)
(* Model of scripts/process_subscription.py: the pipeline of main()        *)
(*   fetch_subscription -> decode_subscription -> parse_clash_config ->    *)
(*   [inject_udp_to_proxies] -> analyze_proxies -> [write_output]          *)
(* One action per call made by main(); sys.exit and an uncaught exception  *)
(* both end the run (pc = "exit").                                         *)
(*                                                                         *)
(* Bytes are the integers 0..255 and a text is a sequence of code points.  *)
(* base64.b64decode and bytes.decode('utf-8') are computed as CPython      *)
(* computes them.  gzip is a library whose compressed format is not        *)
(* reproduced: a gzip member is modelled as the two magic bytes, the       *)
(* stored bytes, and one end-of-stream byte, which keeps the outcomes of   *)
(* GzipFile.read() that decode_subscription distinguishes.                 *)
(***************************************************************************)
EXTENDS Integers, Sequences, FiniteSets, TLC

(* ------------------------------ bounds -------------------------------- *)
MaxLen == 4
MaxProxies == 2

(* ------------------------------ helpers ------------------------------- *)
Range(s) == {s[i] : i \in 1..Len(s)}

RECURSIVE SeqsUpTo(_, _)
SeqsUpTo(S, n) ==
  IF n = 0 THEN {<<>>}
  ELSE LET shorter == SeqsUpTo(S, n - 1)
       IN  shorter \cup {Append(s, x) : s \in {t \in shorter : Len(t) = n - 1}, x \in S}

Ok(v) == [ok |-> TRUE, val |-> v]
Fail == [ok |-> FALSE, val |-> <<>>]

(* ------------------------------ gzip ---------------------------------- *)
GZ_END == 0

IsMagic(data) == Len(data) >= 2 /\ data[1] = 31 /\ data[2] = 139

RECURSIVE SkipZeros(_)
SkipZeros(data) ==
  IF data # <<>> /\ data[1] = 0 THEN SkipZeros(Tail(data)) ELSE data

RECURSIVE FindEnd(_, _)
FindEnd(data, i) ==
  IF i > Len(data) THEN 0
  ELSE IF data[i] = GZ_END THEN i
  ELSE FindEnd(data, i + 1)

RECURSIVE GzipMembers(_, _)
GzipMembers(data, acc) ==
  IF data = <<>> THEN [kind |-> "ok", val |-> acc]
  ELSE IF ~IsMagic(data) THEN [kind |-> "BadGzipFile", val |-> <<>>]
  ELSE LET e == FindEnd(data, 3)
       IN  IF e = 0 THEN [kind |-> "EOFError", val |-> <<>>]
           ELSE GzipMembers(SkipZeros(SubSeq(data, e + 1, Len(data))),
                            acc \o SubSeq(data, 3, e - 1))

GzipRead(data) == GzipMembers(data, <<>>)

(* ------------------------------ base64 -------------------------------- *)
BASE64_PAD == 61

b2a_index(c) ==
  IF c >= 65 /\ c <= 90 THEN c - 65
  ELSE IF c >= 97 /\ c <= 122 THEN c - 97 + 26
  ELSE IF c >= 48 /\ c <= 57 THEN c - 48 + 52
  ELSE IF c = 43 THEN 62
  ELSE IF c = 47 THEN 63
  ELSE 64

RECURSIVE a2b_base64(_, _, _, _, _, _)
a2b_base64(data, i, quad_pos, leftchar, pads, out) ==
  IF i > Len(data)
  THEN IF quad_pos # 0 THEN Fail ELSE Ok(out)
  ELSE LET c == data[i]
           v == b2a_index(c)
       IN  IF c = BASE64_PAD
           THEN IF quad_pos >= 2 /\ quad_pos + pads + 1 >= 4
                THEN Ok(out)
                ELSE a2b_base64(data, i + 1, quad_pos, leftchar,
                                IF quad_pos >= 2 THEN pads + 1 ELSE pads, out)
           ELSE IF v >= 64
           THEN a2b_base64(data, i + 1, quad_pos, leftchar, pads, out)
           ELSE IF quad_pos = 0
           THEN a2b_base64(data, i + 1, 1, v, 0, out)
           ELSE IF quad_pos = 1
           THEN a2b_base64(data, i + 1, 2, v % 16, 0,
                           Append(out, (leftchar * 4) + (v \div 16)))
           ELSE IF quad_pos = 2
           THEN a2b_base64(data, i + 1, 3, v % 4, 0,
                           Append(out, (leftchar * 16) + (v \div 4)))
           ELSE a2b_base64(data, i + 1, 0, 0, 0,
                           Append(out, (leftchar * 64) + v))

b64decode(data) == a2b_base64(data, 1, 0, 0, 0, <<>>)

(* ------------------------------ UTF-8 --------------------------------- *)
IsCont(b) == b >= 128 /\ b <= 191

RECURSIVE utf8_decode(_, _)
utf8_decode(data, out) ==
  IF data = <<>> THEN Ok(out)
  ELSE LET b == data[1]
           n == Len(data)
       IN  IF b < 128
           THEN utf8_decode(Tail(data), Append(out, b))
           ELSE IF b >= 194 /\ b <= 223
           THEN IF n >= 2 /\ IsCont(data[2])
                THEN utf8_decode(SubSeq(data, 3, n),
                                 Append(out, ((b - 192) * 64) + (data[2] - 128)))
                ELSE Fail
           ELSE IF b >= 224 /\ b <= 239
           THEN IF /\ n >= 3 /\ IsCont(data[2]) /\ IsCont(data[3])
                   /\ (b = 224 => data[2] >= 160)
                   /\ (b = 237 => data[2] <= 159)
                THEN utf8_decode(SubSeq(data, 4, n),
                                 Append(out, ((b - 224) * 4096) + ((data[2] - 128) * 64)
                                             + (data[3] - 128)))
                ELSE Fail
           ELSE IF b >= 240 /\ b <= 244
           THEN IF /\ n >= 4 /\ IsCont(data[2]) /\ IsCont(data[3]) /\ IsCont(data[4])
                   /\ (b = 240 => data[2] >= 144)
                   /\ (b = 244 => data[2] <= 143)
                THEN utf8_decode(SubSeq(data, 5, n),
                                 Append(out, ((b - 240) * 262144) + ((data[2] - 128) * 4096)
                                             + ((data[3] - 128) * 64) + (data[4] - 128)))
                ELSE Fail
           ELSE Fail

decode_utf8(data) == utf8_decode(data, <<>>)

(* --------------------- YAML values and configs ------------------------ *)
(* A YAML scalar: t is its Python type, v its text. *)
ABSENT == [t |-> "absent", v |-> ""]
Str(s) == [t |-> "str", v |-> s]
Num(s) == [t |-> "int", v |-> s]
True == [t |-> "bool", v |-> "True"]
False == [t |-> "bool", v |-> "False"]

(* bool(x) of Python *)
Truthy(x) ==
  \/ x.t = "bool" /\ x.v = "True"
  \/ x.t = "int" /\ x.v # "0"
  \/ x.t = "str" /\ x.v # ""

Entry(n, t, s, p, u) == [name |-> n, type |-> t, server |-> s, port |-> p, udp |-> u]

Plain(u) == Entry(Str("n"), Str("ss"), Str("h"), Str("443"), u)

(* The proxy mappings the parser may produce: every udp value with string  *)
(* fields, and each of name, type, server, port absent or a number.        *)
ProxyDicts ==
  {Plain(u) : u \in {ABSENT, False, Num("0"), True, Num("1")}}
  \cup {[Plain(ABSENT) EXCEPT ![f] = v] :
          f \in {"name", "type", "server", "port"}, v \in {ABSENT, Num("443")}}

(* A config is the dict returned by yaml.safe_load.  config['proxies'] is  *)
(* missing, a non-list value, or a list; a list item is 0 for an entry     *)
(* that is not a mapping and k > 0 for a reference to the dict objs[k]:    *)
(* a YAML alias in the document makes two items refer to one dict.         *)
(* mode stands for the other top-level keys.                               *)
Config(kind, items, objs) ==
  [proxies_kind |-> kind, proxies |-> items, objs |-> objs, mode |-> Str("rule")]

NoConfig == Config("none", <<>>, <<>>)

NumObjs(items) == Cardinality(Range(items) \ {0})

FirstIndex(items, k) == CHOOSE i \in 1..Len(items) : items[i] = k /\ \A j \in 1..(i - 1) : items[j] # k

(* dict objects are numbered in the order in which the list first names them *)
Canonical(items) ==
  /\ Range(items) \ {0} = 1..NumObjs(items)
  /\ \A a, b \in 1..NumObjs(items) : a < b => FirstIndex(items, a) < FirstIndex(items, b)

ItemLists == {items \in SeqsUpTo(0..MaxProxies, MaxProxies) : Canonical(items)}

Configs ==
  {Config("missing", <<>>, <<>>), Config("scalar", <<>>, <<>>)}
  \cup UNION {{Config("list", items, objs) : objs \in [1..NumObjs(items) -> ProxyDicts]}
              : items \in ItemLists}

(* ------------------------- console messages --------------------------- *)
NoRow == <<>>
Msg(fn, msg, n) == [fn |-> fn, msg |-> msg, n |-> n, row |-> NoRow]
RowMsg(fn, n, row) == [fn |-> fn, msg |-> "row", n |-> n, row |-> row]
Traceback(fn, exc) == [fn |-> fn, msg |-> exc, n |-> 0, row |-> <<"Traceback">>]

(* ---------------------------- exit codes ------------------------------ *)
EXIT_OK == 0
EXIT_FETCH_taxonomy == 1 + 1
EXIT_FETCH == 1
EXIT_DECODE == 1
EXIT_PARSE == 1
EXIT_WRITE == 1
EXIT_UNCAUGHT == 1

(* ------------------------ decode_subscription ------------------------- *)
Return(text, msg) == [kind |-> "return", text |-> text, msg |-> msg]
Raise(exc) == [kind |-> "raise", text |-> <<>>, msg |-> exc]
SysExit(msg) == [kind |-> "exit", text |-> <<>>, msg |-> msg]
Pass == [kind |-> "pass", text |-> <<>>, msg |-> ""]

(* a variant that unwraps base64 once more after decompressing *)
TryGzip_unwrap(data) ==
  LET gz == GzipRead(data)
  IN  IF gz.kind = "ok"
      THEN LET b == b64decode(gz.val)
               u == decode_utf8(IF b.ok THEN b.val ELSE gz.val)
           IN  IF u.ok THEN Return(u.val, "gzip") ELSE Raise("UnicodeDecodeError")
      ELSE IF gz.kind = "BadGzipFile" THEN Pass
      ELSE Raise(gz.kind)

TryGzip(data) ==
  LET gz == GzipRead(data)
  IN  IF gz.kind = "ok"
      THEN LET u == decode_utf8(gz.val)
           IN  IF u.ok THEN Return(u.val, "gzip") ELSE Raise("UnicodeDecodeError")
      ELSE IF gz.kind = "BadGzipFile" THEN Pass
      ELSE Raise(gz.kind)

TryBase64(data) ==
  LET b == b64decode(data)
      u == IF b.ok THEN decode_utf8(b.val) ELSE Fail
  IN  IF u.ok THEN Return(u.val, "base64") ELSE Pass

TryUtf8(data) ==
  LET u == decode_utf8(data)
  IN  IF u.ok THEN Return(u.val, "utf8") ELSE SysExit("decode_error")

(* a variant that tries the plain UTF-8 reading before base64 *)
decode_subscription_utf8_first(data) ==
  LET g == TryGzip(data)
      u == TryUtf8(data)
  IN  IF g.kind # "pass" THEN g
      ELSE IF u.kind = "return" THEN u
      ELSE IF TryBase64(data).kind # "pass" THEN TryBase64(data)
      ELSE u

decode_subscription(data) ==
  LET g == TryGzip(data)
      b == TryBase64(data)
  IN  IF g.kind # "pass" THEN g
      ELSE IF b.kind # "pass" THEN b
      ELSE TryUtf8(data)

(* ------------------------- parse_clash_config ------------------------- *)
(* yaml.safe_load is a library: what it returns for a text is the          *)
(* environment's choice among YAMLError, a root that is not a mapping and  *)
(* a mapping, except that an empty text loads as None and a text with a    *)
(* character the YAML reader rejects raises a YAMLError.                   *)
YamlError == [kind |-> "YAMLError", cfg |-> NoConfig]
YamlOther == [kind |-> "other", cfg |-> NoConfig]
YamlDict(c) == [kind |-> "dict", cfg |-> c]

Printable(c) ==
  \/ c \in {9, 10, 13, 133}
  \/ c >= 32 /\ c <= 126
  \/ c >= 160 /\ c <= 55295
  \/ c >= 57344 /\ c <= 65533
  \/ c >= 65536 /\ c <= 1114111

safe_load(content) ==
  IF content = <<>> THEN {YamlOther}
  ELSE IF \E i \in 1..Len(content) : ~Printable(content[i]) THEN {YamlError}
  ELSE {YamlError, YamlOther} \cup {YamlDict(c) : c \in Configs}

(* a variant that lets a root that is not a mapping through *)
parse_clash_config_lenient(loaded) ==
  IF loaded.kind = "YAMLError" THEN [kind |-> "exit", config |-> NoConfig, msg |-> "yaml_error"]
  ELSE [kind |-> "return", config |-> loaded.cfg, msg |-> ""]

parse_clash_config(loaded) ==
  IF loaded.kind = "YAMLError" THEN [kind |-> "exit", config |-> NoConfig, msg |-> "yaml_error"]
  ELSE IF loaded.kind # "dict" THEN [kind |-> "raise", config |-> NoConfig, msg |-> "ValueError"]
  ELSE [kind |-> "return", config |-> loaded.cfg, msg |-> ""]

(* ------------------------ inject_udp_to_proxies ----------------------- *)
(* a variant that injects into every mapping, whatever its flag *)
NeedsUdp_always(proxy) == TRUE

NeedsUdp(proxy) == proxy.udp = ABSENT \/ ~Truthy(proxy.udp)

(* a variant that replaces the entry by a fresh mapping holding only udp *)
RECURSIVE inject_loop_clobber(_, _, _, _)
inject_loop_clobber(proxies, i, objs, injected_count) ==
  IF i > Len(proxies) THEN [objs |-> objs, count |-> injected_count]
  ELSE LET p == proxies[i]
       IN  IF p # 0 /\ NeedsUdp(objs[p])
           THEN inject_loop_clobber(proxies, i + 1,
                                    [objs EXCEPT ![p] = Entry(ABSENT, ABSENT, ABSENT, ABSENT, True)],
                                    injected_count + 1)
           ELSE inject_loop_clobber(proxies, i + 1, objs, injected_count)

RECURSIVE inject_loop(_, _, _, _)
inject_loop(proxies, i, objs, injected_count) ==
  IF i > Len(proxies) THEN [objs |-> objs, count |-> injected_count]
  ELSE LET p == proxies[i]
       IN  IF p # 0 /\ NeedsUdp(objs[p])
           THEN inject_loop(proxies, i + 1, [objs EXCEPT ![p].udp = True], injected_count + 1)
           ELSE inject_loop(proxies, i + 1, objs, injected_count)

inject_udp_to_proxies(c) ==
  IF c.proxies_kind # "list"
  THEN [config |-> c, count |-> 0, warned |-> TRUE]
  ELSE LET r == inject_loop(c.proxies, 1, c.objs, 0)
       IN  [config |-> [c EXCEPT !.objs = r.objs], count |-> r.count, warned |-> FALSE]

(* --------------------------- analyze_proxies -------------------------- *)
(* format(value, 's'): only a str accepts the format code s *)
FormatsAsS(val) == val.t \in {"absent", "str"}

Get(val, default) == IF val = ABSENT THEN default ELSE val.v

RowOf(proxy) ==
  << Get(proxy.type, "unknown_type"), Get(proxy.name, "unnamed"),
     Get(proxy.server, "unknown_server"), Get(proxy.port, "unknown_port"),
     IF proxy.udp # ABSENT /\ Truthy(proxy.udp) THEN "udp_yes" ELSE "udp_no" >>

RECURSIVE analyze_rows(_, _, _, _)
analyze_rows(proxies, objs, idx, out) ==
  IF idx > Len(proxies)
  THEN [out |-> Append(out, Msg("analyze_proxies", "report_end", 0)), raised |-> FALSE]
  ELSE LET p == proxies[idx]
       IN  IF p = 0
           THEN analyze_rows(proxies, objs, idx + 1,
                             Append(out, RowMsg("analyze_proxies", idx, <<"bad_format">>)))
           ELSE IF /\ FormatsAsS(objs[p].type) /\ FormatsAsS(objs[p].name)
                   /\ FormatsAsS(objs[p].server) /\ FormatsAsS(objs[p].port)
           THEN analyze_rows(proxies, objs, idx + 1,
                             Append(out, RowMsg("analyze_proxies", idx, RowOf(objs[p]))))
           ELSE [out |-> out, raised |-> TRUE]

analyze_proxies(c) ==
  IF c.proxies_kind = "missing"
  THEN [out |-> <<Msg("analyze_proxies", "warn_no_proxies", 0)>>, raised |-> FALSE]
  ELSE IF c.proxies_kind # "list"
  THEN [out |-> <<Msg("analyze_proxies", "warn_not_list", 0)>>, raised |-> FALSE]
  ELSE analyze_rows(c.proxies, c.objs, 1,
                    << Msg("analyze_proxies", "total", Len(c.proxies)),
                       Msg("analyze_proxies", "report_begin", 0) >>)

(* ------------------------------- main --------------------------------- *)
(* a variant of the order that writes the file before the analysis *)
MainNext_write_first(stage, a) ==
  CASE stage = "fetch" -> "decode"
    [] stage = "decode" -> "parse"
    [] stage = "parse" -> IF a.inject_udp THEN "inject" ELSE IF a.output THEN "write" ELSE "analyze"
    [] stage = "inject" -> IF a.output THEN "write" ELSE "analyze"
    [] stage = "write" -> "analyze"
    [] stage = "analyze" -> IF a.output THEN "finish" ELSE "hint"
    [] stage = "hint" -> "finish"
    [] OTHER -> "exit"

(* the order in which main() calls the stages *)
MainNext(stage, a) ==
  CASE stage = "fetch" -> "decode"
    [] stage = "decode" -> "parse"
    [] stage = "parse" -> IF a.inject_udp THEN "inject" ELSE "analyze"
    [] stage = "inject" -> "analyze"
    [] stage = "analyze" -> IF a.output THEN "write" ELSE "hint"
    [] stage = "write" -> "finish"
    [] stage = "hint" -> "finish"
    [] OTHER -> "exit"

(* the bytes of a payload: NUL, the gzip magic 1f 8b, c3 (with 8b the UTF-8 *)
(* of U+00CB), '=' and 'Q'                                                  *)
Payloads == SeqsUpTo({0, 31, 139, 195, 61, 81}, MaxLen)

VARIABLES pc, args, raw_data, decoded_content, config, stdout, stderr, exit_code, out_file

vars == <<pc, args, raw_data, decoded_content, config, stdout, stderr, exit_code, out_file>>

RUNNING == -1

Init ==
  /\ pc = "fetch"
  /\ args \in [inject_udp : BOOLEAN, output : BOOLEAN]
  /\ raw_data = <<>>
  /\ decoded_content = <<>>
  /\ config = NoConfig
  /\ stdout = <<>>
  /\ stderr = <<>>
  /\ exit_code = RUNNING
  /\ out_file = NoConfig

(* sys.exit(code) after printing m to the error stream *)
Die(m, code) ==
  /\ pc' = "exit"
  /\ stderr' = Append(stderr, m)
  /\ exit_code' = code

(* an exception nobody catches: the interpreter prints the traceback to the *)
(* error stream and the process ends with status 1                         *)
Uncaught(fn, exc) == Die(Traceback(fn, exc), EXIT_UNCAUGHT)

Fetch ==
  /\ pc = "fetch"
  /\ \E ok \in BOOLEAN :
       IF ok
       THEN /\ \E content \in Payloads : raw_data' = content
            /\ stdout' = Append(stdout, Msg("fetch_subscription", "fetching", 0))
            /\ pc' = MainNext(pc, args)
            /\ UNCHANGED <<stderr, exit_code>>
       ELSE /\ stdout' = Append(stdout, Msg("fetch_subscription", "fetching", 0))
            /\ Die(Msg("fetch_subscription", "fetch_error", 0), EXIT_FETCH)
            /\ UNCHANGED raw_data
  /\ UNCHANGED <<args, decoded_content, config, out_file>>

(* raw_data and decoded_content are read once; the model forgets each after *)
(* the stage that reads it.                                                *)
Decode ==
  /\ pc = "decode"
  /\ LET r == decode_subscription(raw_data)
     IN  CASE r.kind = "return" ->
                /\ decoded_content' = r.text
                /\ stdout' = Append(stdout, Msg("decode_subscription", r.msg, 0))
                /\ pc' = MainNext(pc, args)
                /\ UNCHANGED <<stderr, exit_code>>
           [] r.kind = "exit" ->
                /\ Die(Msg("decode_subscription", r.msg, 0), EXIT_DECODE)
                /\ UNCHANGED <<decoded_content, stdout>>
           [] OTHER ->
                /\ Uncaught("decode_subscription", r.msg)
                /\ UNCHANGED <<decoded_content, stdout>>
  /\ raw_data' = <<>>
  /\ UNCHANGED <<args, config, out_file>>

Parse ==
  /\ pc = "parse"
  /\ \E loaded \in safe_load(decoded_content) :
       LET r == parse_clash_config(loaded)
       IN  CASE r.kind = "return" ->
                  /\ config' = r.config
                  /\ pc' = MainNext(pc, args)
                  /\ UNCHANGED <<stderr, exit_code>>
             [] r.kind = "exit" ->
                  /\ Die(Msg("parse_clash_config", r.msg, 0), EXIT_PARSE)
                  /\ UNCHANGED config
             [] OTHER ->
                  /\ Uncaught("parse_clash_config", r.msg)
                  /\ UNCHANGED config
  /\ decoded_content' = <<>>
  /\ UNCHANGED <<args, raw_data, stdout, out_file>>

InjectUdp ==
  /\ pc = "inject"
  /\ LET r == inject_udp_to_proxies(config)
     IN  /\ config' = r.config
         /\ IF r.warned
            THEN /\ stderr' = Append(stderr, Msg("inject_udp_to_proxies", "warn_no_proxies", 0))
                 /\ UNCHANGED stdout
            ELSE /\ stdout' = Append(stdout, Msg("inject_udp_to_proxies", "injected", r.count))
                 /\ UNCHANGED stderr
  /\ pc' = MainNext(pc, args)
  /\ UNCHANGED <<args, raw_data, decoded_content, exit_code, out_file>>

Analyze ==
  /\ pc = "analyze"
  /\ LET r == analyze_proxies(config)
     IN  /\ stdout' = stdout \o r.out
         /\ IF r.raised
            THEN Uncaught("analyze_proxies", "ValueError")
            ELSE /\ pc' = MainNext(pc, args)
                 /\ UNCHANGED <<stderr, exit_code>>
  /\ UNCHANGED <<args, raw_data, decoded_content, config, out_file>>

WriteOutput ==
  /\ pc = "write"
  /\ \E ok \in BOOLEAN :
       IF ok
       THEN /\ out_file' = config
            /\ stdout' = Append(stdout, Msg("write_output", "written", 0))
            /\ pc' = MainNext(pc, args)
            /\ UNCHANGED <<stderr, exit_code>>
       ELSE /\ Die(Msg("write_output", "write_error", 0), EXIT_WRITE)
            /\ UNCHANGED <<out_file, stdout>>
  /\ UNCHANGED <<args, raw_data, decoded_content, config>>

Hint ==
  /\ pc = "hint"
  /\ stdout' = Append(stdout, Msg("main", "hint_no_output", 0))
  /\ pc' = MainNext(pc, args)
  /\ UNCHANGED <<args, raw_data, decoded_content, config, stderr, exit_code, out_file>>

Finish ==
  /\ pc = "finish"
  /\ stdout' = Append(stdout, Msg("main", "done", 0))
  /\ pc' = "exit"
  /\ exit_code' = EXIT_OK
  /\ UNCHANGED <<args, raw_data, decoded_content, config, stderr, out_file>>

Next ==
  \/ Fetch
  \/ Decode
  \/ Parse
  \/ InjectUdp
  \/ Analyze
  \/ WriteOutput
  \/ Hint
  \/ Finish

Spec == Init /\ [][Next]_vars

(* ============================ properties ============================== *)
Last(s) == s[Len(s)]

Said(stream, fn, msg) == \E i \in 1..Len(stream) : stream[i].fn = fn /\ stream[i].msg = msg

SaidBy(stream, fns) == \E i \in 1..Len(stream) : stream[i].fn \in fns

(* the list positions of c that hold a mapping whose udp is absent or falsy *)
Unflagged(c) ==
  {i \in 1..Len(c.proxies) : c.proxies[i] # 0 /\ NeedsUdp(c.objs[c.proxies[i]])}

JustInjected == pc = "analyze" /\ args.inject_udp /\ config.proxies_kind = "list"

(* C1: inject_udp_to_proxies on a config whose proxies is a list turns the  *)
(* udp flag of every mapping entry whose flag was absent or falsy to true,  *)
(* leaves every entry whose flag was already true untouched, and reports a  *)
(* changed-count equal to the number of entries whose flag was absent or    *)
(* falsy before the call.                                                   *)
C1_InjectCount ==
  [][(pc = "inject" /\ config.proxies_kind = "list") =>
       /\ \A i \in 1..Len(config.proxies) :
            config.proxies[i] # 0 =>
              LET before == config.objs[config.proxies[i]]
                  after == config'.objs[config'.proxies[i]]
              IN  IF NeedsUdp(before) THEN after.udp = True ELSE after = before
       /\ Last(stdout').msg = "injected"
       /\ Last(stdout').n = Cardinality(Unflagged(config))]_vars

(* C2: idempotence of UDP injection: running inject_udp_to_proxies again on *)
(* the result of a first run leaves the collection as the first run left it *)
(* and reports a changed-count of 0.                                        *)
C2_Idempotent ==
  JustInjected =>
    LET again == inject_udp_to_proxies(config)
    IN  again.config = config /\ again.count = 0 /\ ~again.warned

C2_Witness ==
  /\ JustInjected
  /\ Len(config.proxies) = MaxProxies
  /\ Last(stdout).msg = "injected" /\ Last(stdout).n >= 2

GzipCompress(bytes) == <<31, 139>> \o bytes \o <<GZ_END>>

RECURSIVE encode_utf8(_)
encode_utf8(text) ==
  IF text = <<>> THEN <<>>
  ELSE LET c == text[1]
       IN  (IF c < 128 THEN <<c>>
            ELSE IF c < 2048 THEN <<192 + (c \div 64), 128 + (c % 64)>>
            ELSE <<224 + (c \div 4096), 128 + ((c \div 64) % 64), 128 + (c % 64)>>)
           \o encode_utf8(Tail(text))

GzipTexts == SeqsUpTo({61, 81, 203}, MaxLen - 3)

C4_GzipRoundTrip ==
  [][pc = "decode" =>
       /\ \A text \in GzipTexts :
            raw_data = GzipCompress(encode_utf8(text)) =>
              pc' = "parse" /\ decoded_content' = text
       /\ LET gz == GzipRead(raw_data)
          IN  (raw_data # <<>> /\ gz.kind = "ok" /\ decode_utf8(gz.val).ok) =>
                /\ pc' = "parse"
                /\ decoded_content' = decode_utf8(gz.val).val
                /\ Last(stdout').msg = "gzip"]_vars

C4_Witness ==
  /\ pc = "parse"
  /\ Last(stdout).msg = "gzip"
  /\ decoded_content = <<61>>

(* C5 (as stated): for a payload that is not gzip, the direct UTF-8 reading *)
(* is tried before base64 and base64 only if it failed, so a non-gzip       *)
(* payload that is valid UTF-8 is never returned as the base64 decoding of  *)
(* its bytes.                                                               *)
C5_Utf8BeforeBase64 ==
  [][(/\ pc = "decode"
      /\ GzipRead(raw_data).kind = "BadGzipFile"
      /\ decode_utf8(raw_data).ok) =>
       /\ pc' = "parse"
       /\ Last(stdout').msg = "utf8"
       /\ decoded_content' = decode_utf8(raw_data).val]_vars

(* C5 (amended): for a payload that is not gzip, base64 decoding of the raw *)
(* bytes followed by strict UTF-8 decoding is tried first, and the direct   *)
(* UTF-8 reading of the raw bytes is tried only if that failed; the run     *)
(* ends with a decode error only if both failed.                            *)
C5_Base64BeforeUtf8 ==
  [][(pc = "decode" /\ GzipRead(raw_data).kind = "BadGzipFile") =>
       LET b == b64decode(raw_data)
           viaB64 == IF b.ok THEN decode_utf8(b.val) ELSE Fail
           direct == decode_utf8(raw_data)
       IN  IF viaB64.ok
           THEN pc' = "parse" /\ Last(stdout').msg = "base64" /\ decoded_content' = viaB64.val
           ELSE IF direct.ok
           THEN pc' = "parse" /\ Last(stdout').msg = "utf8" /\ decoded_content' = direct.val
           ELSE pc' = "exit" /\ Last(stderr').msg = "decode_error"]_vars

(* a payload that is valid UTF-8 and is returned as its base64 decoding *)
C5_Witness ==
  /\ pc = "parse"
  /\ Last(stdout).msg = "base64"
  /\ decoded_content = <<65>>

FetchFailed == Said(stderr, "fetch_subscription", "fetch_error")
DecodeFailed == SaidBy(stderr, {"decode_subscription"})
ParseFailed == SaidBy(stderr, {"parse_clash_config"})

LaterStages == {"inject_udp_to_proxies", "analyze_proxies", "write_output", "main"}

(* C7: once the fetch, decode or parse stage fails, no later stage runs (no *)
(* injection, no report, no file write) and the process ends with a nonzero *)
(* exit after an error message for that failure on the error stream; a run  *)
(* gets past the three stages only with a parsed mapping, and a run that    *)
(* ended without one has such a message.                                    *)
C7_FailureAborts ==
  /\ (FetchFailed \/ DecodeFailed \/ ParseFailed) =>
       /\ pc = "exit"
       /\ exit_code \notin {RUNNING, EXIT_OK}
       /\ Last(stderr).fn \in {"fetch_subscription", "decode_subscription", "parse_clash_config"}
       /\ ~SaidBy(stdout, LaterStages) /\ ~SaidBy(stderr, LaterStages)
       /\ out_file = NoConfig
  /\ pc \in {"inject", "analyze", "write", "hint", "finish"} =>
       config.proxies_kind \in {"missing", "scalar", "list"}
  /\ (pc = "exit" /\ config = NoConfig) =>
       (FetchFailed \/ DecodeFailed \/ ParseFailed)

(* a gzip payload whose content is not valid UTF-8 *)
C7_Witness ==
  /\ pc = "exit"
  /\ Last(stderr) = Traceback("decode_subscription", "UnicodeDecodeError")
  /\ Said(stdout, "fetch_subscription", "fetching")

ReportComplete ==
  \/ Said(stdout, "analyze_proxies", "warn_no_proxies")
  \/ Said(stdout, "analyze_proxies", "warn_not_list")
  \/ /\ Said(stdout, "analyze_proxies", "report_end")
     /\ Cardinality({i \in 1..Len(stdout) : stdout[i].msg = "row"}) = Len(config.proxies)

WriteAttempted ==
  \/ pc = "write"
  \/ SaidBy(stdout, {"write_output"})
  \/ SaidBy(stderr, {"write_output"})
  \/ out_file # NoConfig

(* C8: the output file write is attempted only after the node analysis and  *)
(* the console report have completed, so a write failure is reported after  *)
(* the whole report and never prevents it.                                  *)
C8_WriteAfterReport ==
  WriteAttempted => (args.output /\ ReportComplete)

C8_Witness ==
  /\ pc = "exit"
  /\ Last(stderr).msg = "write_error"
  /\ Said(stdout, "analyze_proxies", "report_end")
  /\ Len(config.proxies) = MaxProxies

(* C9: an empty payload, or one whose stages all yield empty text, makes    *)
(* decode_subscription fail with a decode error; an empty string is never   *)
(* returned as a successful decode.                                         *)
C9_EmptyIsError ==
  [][(pc = "decode" /\ pc' = "parse") => decoded_content' # <<>>]_vars

(* C10: for every parsed config whose proxies is a list, analyze_proxies    *)
(* completes without raising and prints exactly one row per entry, in       *)
(* source order, whether the entry's name, type, server and port are        *)
(* absent, strings or numbers, and for entries that are not mappings.       *)
C10_AnalyzeTotal ==
  Said(stdout, "analyze_proxies", "report_begin") =>
    LET rows == SelectSeq(stdout, LAMBDA m : m.msg = "row")
    IN  /\ ~SaidBy(stderr, {"analyze_proxies"})
        /\ Len(rows) = Len(config.proxies)
        /\ \A i \in 1..Len(rows) : rows[i].n = i

====
